---- MODULE Spec2Model ----
(***************************************************************************)
(* A model of the Lua restoration tool as state machines.                  *)
(*   Spec, SpecContent   the dependency graph (src/src/dependency_graph.py)*)
(*                       the fields of DependencyGraph are the variables,  *)
(*                       every public method is one action;                *)
(*   SpecExport          the same graph with export_json;                  *)
(*   SpecResolver        the module resolver and its search roots          *)
(*                       (src/src/lua_module_resolver.py);                 *)
(*   SpecText            the extraction of require statements;             *)
(*   SpecDecoder         analysis and restoration (src/src/lua_decoder.py, *)
(*                       src/src/llm_client.py), SpecDecoderFair with the  *)
(*                       progress of its loop;                             *)
(*   SpecDiscover        the discovery of the files to analyse             *)
(*                       (discover_dependencies_recursively), with         *)
(*                       SpecDiscoverFair for the progress of its loop.    *)
(* Strings of the resolver and the decoder are sequences of characters,    *)
(* paths are sequences of components.                                      *)
(***************************************************************************)
EXTENDS Integers, Sequences, FiniteSets, TLC

\* ------------------------------------------------------------------ bounds
\* How many mutating calls (add_file, add_dependency) a caller makes when it
\* is free to call anything.
MaxCalls == 4

\* The files the callers name, each by its canonical absolute path (the value
\* of str(Path(file_path).resolve())), and the module names.
Paths == {"A", "B", "C", "D"}
Modules == {"a", "b", "c", "d"}

\* The paths and module names of a caller that calls freely.
FreePaths == {"A", "B", "C"}
FreeModules == {"a", "b"}

\* Python's None (the default of add_file's content parameter, and the value
\* returned by the mutating methods).
None == "None"

\* The content values a caller passes to add_file.
Contents == {None, "", "text1", "text2"}
FreeContents == {None}

VARIABLES
    graph,                      \* self.graph: ordered dict path -> set of consumers
    reverse_graph,              \* self.reverse_graph: dict path -> set of dependencies
    file_to_module,             \* self.file_to_module: dict path -> module name
    module_to_file,             \* self.module_to_file: dict module name -> path
    file_contents,              \* self.file_contents: dict path -> content
    pending_module_dependents,  \* dict module name -> set of consumer paths
    last,                       \* the call that was made last, with its arguments
    ret,                        \* the value that call returned
    budget,                     \* the caller: free calls it may still make
    project,                    \* the caller: the calls of its project
    pool,                       \* the caller: calls of its project still to make
    base_paths,                 \* LuaModuleResolver.base_paths: list of search roots
    fs,                         \* the file system: the paths that exist
    source,                     \* the file system: the statements of the Lua file
    processed_files,            \* LuaDecoder.processed_files
    failed_files,               \* LuaDecoder.failed_files
    restored_files,             \* LuaDecoder.restored_files
    output_files,               \* the output directory: dict output file -> text written
    restoration_order,          \* restore_code_in_order: its local restoration_order
    attempts,                   \* restore_code_in_order: the files its loop has reached
    pc,                         \* where the decoder is
    files_to_process,           \* discover_dependencies_recursively: its queue
    processed,                  \* discover_dependencies_recursively: its set processed
    max_depth,                  \* discover_dependencies_recursively: its parameter
    analysed                    \* the files the discovery has analysed, with their depth

vars == <<graph, reverse_graph, file_to_module, module_to_file, file_contents,
          pending_module_dependents, last, ret, budget, project, pool,
          base_paths, fs, source, processed_files, failed_files, restored_files,
          output_files, restoration_order, attempts, pc, files_to_process,
          processed, max_depth, analysed>>

resolver == <<base_paths, fs, source>>

discovery == <<files_to_process, processed, max_depth, analysed>>

decoder == <<processed_files, failed_files, restored_files, output_files,
             restoration_order, attempts, pc, discovery>>

object == <<graph, reverse_graph, file_to_module, module_to_file, file_contents,
            pending_module_dependents>>

\* ------------------------------------------------- Python containers
\* A dict whose iteration order is never observed is a function on its keys.
EmptyDict == [k \in {} |-> {}]

\* d[k] = v
DictSet(d, k, v) == [x \in (DOMAIN d) \cup {k} |-> IF x = k THEN v ELSE d[x]]

\* d.get(k, default)
DictGet(d, k, default) == IF k \in DOMAIN d THEN d[k] ELSE default

\* d.pop(k, default): the dict that is left
DictPop(d, k) == [x \in (DOMAIN d) \ {k} |-> d[x]]

\* self.graph is iterated (topological_sort, detect_cycles), so its insertion
\* order is kept: a sequence of <<key, value>> pairs with distinct keys.
RECURSIVE OKeysFrom(_, _)
OKeysFrom(d, i) == IF i > Len(d) THEN <<>> ELSE <<d[i][1]>> \o OKeysFrom(d, i + 1)

\* list(d): the keys in insertion order
OKeySeq(d) == OKeysFrom(d, 1)

\* set(d.keys())
OKeys(d) == {d[i][1] : i \in 1..Len(d)}

\* d.get(k, default)
OGet(d, k, default) ==
    IF k \in OKeys(d)
    THEN d[CHOOSE i \in 1..Len(d) : d[i][1] = k][2]
    ELSE default

\* d[k] = v: an existing key keeps its position, a new key goes last
OSet(d, k, v) ==
    IF k \in OKeys(d)
    THEN [i \in 1..Len(d) |-> IF d[i][1] = k THEN <<k, v>> ELSE d[i]]
    ELSE Append(d, <<k, v>>)

\* A node creation without its guard: self.graph[k] = set() in every case.
OReset(d, k) == IF k \in OKeys(d) THEN OSet(d, k, {}) ELSE Append(d, <<k, {}>>)

\* d[k] on a defaultdict(set): a missing key is created with an empty set
OTouch(d, k) == IF k \in OKeys(d) THEN d ELSE Append(d, <<k, {}>>)

\* An entry creation without its guard: self.reverse_graph[k] = set() in
\* every case.
DictReset(d, k) == DictSet(d, k, {})

\* reverse_graph[k] on a defaultdict(set), likewise
DictTouch(d, k) == IF k \in DOMAIN d THEN d ELSE DictSet(d, k, {})

\* Every order in which a Python set may be iterated.
RECURSIVE Orderings(_)
Orderings(S) ==
    IF S = {} THEN {<<>>}
    ELSE UNION {{<<x>> \o o : o \in Orderings(S \ {x})} : x \in S}

SeqToSet(s) == {s[i] : i \in 1..Len(s)}

\* A lookup d[k] on a defaultdict(set): a missing key is inserted.
OAfterIndex(d, k) == OTouch(d, k)

\* The dict self.graph after d.get(k, set()): get inserts nothing, also on a
\* defaultdict.
OAfterGet(d, k) == d

\* self.graph after d.get(k, set()) for every k of keys.
RECURSIVE OAfterGets(_, _)
OAfterGets(d, keys) ==
    IF keys = {} THEN d
    ELSE LET k == CHOOSE x \in keys : TRUE
         IN OAfterGets(OAfterGet(d, k), keys \ {k})

\* The dict self.reverse_graph after d.get(k, set()).
DictAfterGet(d, k) == d

\* self.reverse_graph after d.get(k, set()) for every k of keys.
RECURSIVE DictAfterGets(_, _)
DictAfterGets(d, keys) ==
    IF keys = {} THEN d
    ELSE LET k == CHOOSE x \in keys : TRUE
         IN DictAfterGets(DictAfterGet(d, k), keys \ {k})

\* ------------------------------------------------------------ add_file
\* An add_file that pops the pending consumers and inserts no edge.
BackfillSkipped(st, file_path, consumers) == st

\* Lines 52-59: pop the consumers pending on module_name and insert the edge
\* file_path -> consumer in both maps.  Works on the record of the six fields.
\* The order in which the consumers are taken changes nothing that is kept.
RECURSIVE BackfillPending(_, _, _)
BackfillPending(st, file_path, consumers) ==
    IF consumers = {} THEN st
    ELSE LET consumer == CHOOSE c \in consumers : TRUE
             g1 == OSet(OTouch(st.graph, file_path), file_path,
                        OGet(st.graph, file_path, {}) \cup {consumer})
             r1 == DictTouch(st.reverse_graph, consumer)
             r2 == DictSet(r1, consumer, r1[consumer] \cup {file_path})
         IN BackfillPending([st EXCEPT !.graph = g1, !.reverse_graph = r2],
                            file_path, consumers \ {consumer})

\* if content: self.file_contents[path] = content  (None and "" are falsy)
CacheContent(cache, file_path, content) ==
    IF content \notin {None, ""} THEN DictSet(cache, file_path, content) ELSE cache

\* A pop that reads the entry and leaves it in the dict.
PopPendingKept(pend, module_name) == pend

\* pending = self.pending_module_dependents.pop(module_name, set())
PopPending(pend, module_name) == DictPop(pend, module_name)

\* The state after add_file(file_path, module_name, content) in state st.
AddFileState(st, file_path, module_name, content) ==
    LET st1 == [st EXCEPT
                  !.file_to_module = DictSet(@, file_path, module_name),
                  !.module_to_file = DictSet(@, module_name, file_path),
                  !.file_contents = CacheContent(@, file_path, content),
                  !.graph = OTouch(@, file_path),
                  !.reverse_graph = DictTouch(@, file_path)]
        pending == DictGet(st.pending_module_dependents, module_name, {})
        st2 == [st1 EXCEPT !.pending_module_dependents = PopPending(@, module_name)]
    IN BackfillPending(st2, file_path, pending)

\* -------------------------------------------------------- add_dependency
\* The forward edge alone, without line 84.
LinkResolvedForwardOnly(st, from_file, to_module) ==
    LET to_file == st.module_to_file[to_module]
        g1 == OTouch(st.graph, to_file)
    IN [st EXCEPT
          !.graph = OSet(g1, to_file, OGet(g1, to_file, {}) \cup {from_file}),
          !.reverse_graph = DictTouch(@, from_file)]

\* Lines 76-84: the module is mapped to a file, insert the edge to_file -> from_file.
LinkResolved(st, from_file, to_module) ==
    LET to_file == st.module_to_file[to_module]
        g1 == OTouch(st.graph, to_file)
        r1 == DictTouch(st.reverse_graph, from_file)
    IN [st EXCEPT
          !.graph = OSet(g1, to_file, OGet(g1, to_file, {}) \cup {from_file}),
          !.reverse_graph = DictSet(r1, from_file, r1[from_file] \cup {to_file})]

\* An else branch that forgets the consumer.
LinkPendingDropped(st, from_file, to_module) == st

\* An else branch that also enters the module name into the graph as a node
\* with an edge to the consumer.
LinkPendingAsNode(st, from_file, to_module) ==
    [st EXCEPT
       !.graph = OSet(OTouch(@, to_module), to_module,
                      OGet(@, to_module, {}) \cup {from_file}),
       !.pending_module_dependents =
          DictSet(@, to_module, DictGet(@, to_module, {}) \cup {from_file})]

\* Lines 85-87: the module is not mapped yet, remember the consumer.
LinkPending(st, from_file, to_module) ==
    [st EXCEPT !.pending_module_dependents =
        DictSet(@, to_module, DictGet(@, to_module, {}) \cup {from_file})]

\* An add_dependency that does not look the module up and always remembers
\* the consumer as pending.
AddDependencyUnresolved(st, from_file, to_module) ==
    LinkPending([st EXCEPT !.graph = OTouch(@, from_file)], from_file, to_module)

\* The state after add_dependency(from_file, to_module) in state st.
AddDependencyState(st, from_file, to_module) ==
    LET st1 == [st EXCEPT !.graph = OTouch(@, from_file)]
    IN IF to_module \in DOMAIN st1.module_to_file
       THEN LinkResolved(st1, from_file, to_module)
       ELSE LinkPending(st1, from_file, to_module)


\* ------------------------------------------------ get_dependencies / dependents
\* self.reverse_graph.get(str(file_path), set())
GetDependencies(rg, file_path) == DictGet(rg, file_path, {})

\* self.graph.get(str(file_path), set())
GetDependents(g, file_path) == OGet(g, file_path, {})

\* ------------------------------------------------------ get_all_dependencies
\* The nested dfs(node) of get_all_dependencies, over every iteration order
\* of the sets: the set of the [visited, dependencies] pairs it may leave.
RECURSIVE ClosureDfs(_, _, _), ClosureEach(_, _, _)
ClosureDfs(rg, node, acc) ==
    IF node \in acc.visited THEN {acc}
    ELSE LET acc1 == [acc EXCEPT !.visited = @ \cup {node}]
         IN UNION {ClosureEach(rg, ord, acc1) : ord \in Orderings(DictGet(rg, node, {}))}

\* A loop that collects the direct dependencies and does not descend.
ClosureEachDirect(rg, ord, acc) ==
    [visited : {acc.visited}, dependencies : {acc.dependencies \cup SeqToSet(ord)}]

\* for dep in ...: dependencies.add(dep); dfs(dep)
ClosureEach(rg, ord, acc) ==
    IF ord = <<>> THEN {acc}
    ELSE UNION {ClosureEach(rg, Tail(ord), a) :
                  a \in ClosureDfs(rg, Head(ord),
                                   [acc EXCEPT !.dependencies = @ \cup {Head(ord)}])}

\* The sets get_all_dependencies(file_path) may return.
GetAllDependencies(rg, file_path) ==
    {a.dependencies : a \in ClosureDfs(rg, file_path, [visited |-> {}, dependencies |-> {}])}

\* ----------------------------------------------------------- topological_sort
\* Lines 151-157: in_degree, a defaultdict(int); a path never counted reads 0.
InDegree(g) ==
    [p \in OKeys(g) \cup UNION {g[i][2] : i \in 1..Len(g)} |->
        Cardinality({i \in 1..Len(g) : p \in g[i][2]})]

\* A queue that starts with every node, whatever its in-degree.
InitialQueueAll(g, in_degree) == OKeySeq(g)

\* Line 160: the nodes of in-degree 0, in the dict's iteration order.
InitialQueue(g, in_degree) ==
    SelectSeq(OKeySeq(g), LAMBDA node : in_degree[node] = 0)

\* A loop that queues every consumer of the node it emits, without waiting
\* for the consumer's in-degree to reach 0.
RECURSIVE KahnLoopEager(_, _, _, _)
KahnLoopEager(g, in_degree, queue, result) ==
    IF queue = <<>> \/ Len(result) > Cardinality(Paths) THEN {result}
    ELSE LET node == Head(queue)
             deps == OGet(g, node, {})
         IN UNION {KahnLoopEager(g, in_degree, Tail(queue) \o ord, Append(result, node)) :
                     ord \in Orderings(deps)}

\* Lines 163-170: the while loop, over every iteration order of the sets.
RECURSIVE KahnLoop(_, _, _, _)
KahnLoop(g, in_degree, queue, result) ==
    IF queue = <<>> THEN {result}
    ELSE LET node == Head(queue)
             deps == OGet(g, node, {})
             dec == [p \in DOMAIN in_degree |->
                       IF p \in deps THEN in_degree[p] - 1 ELSE in_degree[p]]
             ready == {dep \in deps : dec[dep] = 0}
         IN UNION {KahnLoop(g, dec, Tail(queue) \o ord, Append(result, node)) :
                     ord \in Orderings(ready)}

\* A sort that returns the nodes in the order in which they entered the dict.
TopologicalSortAsInserted(g) == {OKeySeq(g)}

\* The lists topological_sort may return when self.graph is g.
TopologicalSort(g) ==
    LET in_degree == InDegree(g)
    IN KahnLoop(g, in_degree, InitialQueue(g, in_degree), <<>>)

\* --------------------------------------------------------------- detect_cycles
\* path.index(node)
IndexOf(path, node) == CHOOSE i \in 1..Len(path) : path[i] = node /\ \A j \in 1..(i - 1) : path[j] # node

RECURSIVE CycleDfs(_, _, _, _), CycleEach(_, _, _, _)

\* A dfs that never unwinds the recursion stack (no line 209): a finished
\* node met again is reported as a cycle.
CycleDfsStackKept(g, node, path, acc) ==
    IF node \in acc.rec_stack
    THEN {[acc EXCEPT !.cycles = Append(@, <<node, node>>)]}
    ELSE IF node \in acc.visited THEN {acc}
    ELSE LET acc1 == [acc EXCEPT !.visited = @ \cup {node}, !.rec_stack = @ \cup {node}]
         IN UNION {CycleEach(g, ord, Append(path, node), acc1) :
                     ord \in Orderings(OGet(g, node, {}))}

\* A dfs that reports the whole current path, not its suffix from the node
\* met again.
CycleDfsWholePath(g, node, path, acc) ==
    IF node \in acc.rec_stack
    THEN {[acc EXCEPT !.cycles = Append(@, path \o <<node>>)]}
    ELSE IF node \in acc.visited THEN {acc}
    ELSE LET acc1 == [acc EXCEPT !.visited = @ \cup {node}, !.rec_stack = @ \cup {node}]
             path1 == Append(path, node)
             after == UNION {CycleEach(g, ord, path1, acc1) :
                               ord \in Orderings(OGet(g, node, {}))}
         IN {[a EXCEPT !.rec_stack = @ \ {node}] : a \in after}

\* The nested dfs(node, path) of detect_cycles, over every iteration order of
\* the sets: the set of the [cycles, visited, rec_stack] records it may leave.
CycleDfs(g, node, path, acc) ==
    IF node \in acc.rec_stack
    THEN {[acc EXCEPT !.cycles =
             Append(@, SubSeq(path, IndexOf(path, node), Len(path)) \o <<node>>)]}
    ELSE IF node \in acc.visited THEN {acc}
    ELSE LET acc1 == [acc EXCEPT !.visited = @ \cup {node}, !.rec_stack = @ \cup {node}]
             path1 == Append(path, node)
             after == UNION {CycleEach(g, ord, path1, acc1) :
                               ord \in Orderings(OGet(g, node, {}))}
         IN {[a EXCEPT !.rec_stack = @ \ {node}] : a \in after}

\* for dep in self.graph.get(node, set()): dfs(dep, path.copy())
CycleEach(g, ord, path, acc) ==
    IF ord = <<>> THEN {acc}
    ELSE UNION {CycleEach(g, Tail(ord), path, a) : a \in CycleDfs(g, Head(ord), path, acc)}

\* A scan that starts the dfs at the first node of the dict only.
CycleScanFirstNode(g, nodes, acc) ==
    IF nodes = <<>> THEN {acc} ELSE CycleDfs(g, Head(nodes), <<>>, acc)

\* Lines 212-214: for node in self.graph: if node not in visited: dfs(node, [])
RECURSIVE CycleScan(_, _, _)
CycleScan(g, nodes, acc) ==
    IF nodes = <<>> THEN {acc}
    ELSE IF Head(nodes) \in acc.visited THEN CycleScan(g, Tail(nodes), acc)
    ELSE UNION {CycleScan(g, Tail(nodes), a) : a \in CycleDfs(g, Head(nodes), <<>>, acc)}

\* The lists of cycles detect_cycles may return when self.graph is g.
DetectCycles(g) ==
    {a.cycles : a \in CycleScan(g, OKeySeq(g),
                                [cycles |-> <<>>, visited |-> {}, rec_stack |-> {}])}

\* ------------------------------------------------------- get_restoration_order
\* Lines 238-241: subgraph, a plain dict filled in the iteration order deps of
\* all_deps, then start_file; every value is the node's whole forward set.
RECURSIVE SubgraphOf(_, _)
SubgraphOf(g, deps) ==
    IF deps = <<>> THEN <<>>
    ELSE OSet(SubgraphOf(g, SubSeq(deps, 1, Len(deps) - 1)),
              deps[Len(deps)], OGet(g, deps[Len(deps)], {}))

\* A method that returns without the finally clause.
RestoreGraphSkipped(temp_graph, subgraph) == subgraph

\* Lines 249-250: finally: self.graph = temp_graph
RestoreGraph(temp_graph, subgraph) == temp_graph

\* The <<graph left behind, list returned>> pairs of get_restoration_order.
GetRestorationOrderRuns(g, rg, start_file) ==
    IF start_file \notin OKeys(g) THEN {<<g, <<start_file>>>>}
    ELSE UNION {UNION {
            LET subgraph == OSet(SubgraphOf(g, ord), start_file, OGet(g, start_file, {}))
                temp_graph == g
            IN {<<RestoreGraph(temp_graph, subgraph), result>> :
                  result \in TopologicalSort(subgraph)}
            : ord \in Orderings(all_deps)} : all_deps \in GetAllDependencies(rg, start_file)}

\* --------------------------------------------------------------- get_statistics
RECURSIVE SumOf(_)
\* sum(...) of a list of numbers
SumOf(numbers) == IF numbers = <<>> THEN 0 ELSE Head(numbers) + SumOf(Tail(numbers))

\* The dict get_statistics returns when self.graph is g; the quotient
\* avg_dependencies is the pair <<numerator, denominator>>, 0 is <<0, 1>>.
GetStatistics(g) ==
    LET sizes == [i \in 1..Len(g) |-> Cardinality(g[i][2])]
        total_files == Len(g)
        total_deps == SumOf(sizes)
    IN [total_files |-> total_files,
        total_dependencies |-> total_deps,
        max_dependencies |->
            IF g # <<>>
            THEN CHOOSE n \in SeqToSet(sizes) : \A k \in SeqToSet(sizes) : k <= n
            ELSE 0,
        min_dependencies |->
            IF g # <<>>
            THEN CHOOSE n \in SeqToSet(sizes) : \A k \in SeqToSet(sizes) : n <= k
            ELSE 0,
        avg_dependencies |->
            IF total_files > 0 THEN <<total_deps, total_files>> ELSE <<0, 1>>]

\* ------------------------------------------------------------------ export_json
\* The value of file_to_module.get(..., default) for a file with no module.
UnknownModule == "unknown module"

\* The list "files": one record per key of self.graph, in insertion order.
ExportJsonFiles(g, rg, f2m) ==
    [i \in 1..Len(g) |->
        [file_path |-> g[i][1],
         module_name |-> DictGet(f2m, g[i][1], UnknownModule),
         dependencies_count |-> Cardinality(g[i][2]),
         dependents_count |-> Cardinality(DictGet(rg, g[i][1], {}))]]

\* The records of the edges stored under file_path, deps taken in order.
ExportJsonEdges(file_path, deps, f2m) ==
    [k \in 1..Len(deps) |->
        [from |-> file_path,
         to |-> deps[k],
         from_module |-> DictGet(f2m, file_path, UnknownModule),
         to_module |-> DictGet(f2m, deps[k], UnknownModule)]]

RECURSIVE ExportJsonDependencies(_, _)
\* The list "dependencies", over every iteration order of the sets of g.
ExportJsonDependencies(g, f2m) ==
    IF g = <<>> THEN {<<>>}
    ELSE {ExportJsonEdges(Head(g)[1], deps, f2m) \o rest :
            deps \in Orderings(Head(g)[2]),
            rest \in ExportJsonDependencies(Tail(g), f2m)}

\* The values dependency_data may have when it is dumped; generated_at, the
\* time of the call, is left out.
ExportJson(g, rg, f2m) ==
    {[metadata |-> [total_files |-> Len(g),
                    total_dependencies |->
                        SumOf([i \in 1..Len(g) |-> Cardinality(g[i][2])])],
      files |-> ExportJsonFiles(g, rg, f2m),
      dependencies |-> dependencies,
      topological_order |-> order] :
        dependencies \in ExportJsonDependencies(g, f2m),
        order \in TopologicalSort(g)}

\* ------------------------------------------------------------- the state
\* The six fields of the object as one record.
Self ==
    [graph |-> graph, reverse_graph |-> reverse_graph,
     file_to_module |-> file_to_module, module_to_file |-> module_to_file,
     file_contents |-> file_contents,
     pending_module_dependents |-> pending_module_dependents]

\* Assign the record st to the object's fields.
Store(st) ==
    /\ graph' = st.graph
    /\ reverse_graph' = st.reverse_graph
    /\ file_to_module' = st.file_to_module
    /\ module_to_file' = st.module_to_file
    /\ file_contents' = st.file_contents
    /\ pending_module_dependents' = st.pending_module_dependents

\* The record of a call: the method, its path and module arguments, and for
\* add_file the local variable pending (the consumers it popped).
Call(op, path, module) ==
    [op |-> op, path |-> path, module |-> module, popped |-> {},
     content |-> None, again |-> FALSE]

\* DependencyGraph.__init__
InitObject ==
    /\ graph = <<>>
    /\ reverse_graph = EmptyDict
    /\ file_to_module = EmptyDict
    /\ module_to_file = EmptyDict
    /\ file_contents = EmptyDict
    /\ pending_module_dependents = EmptyDict
    /\ last = Call("__init__", None, None)
    /\ ret = None

\* ----------------------------------------------------------------- actions
AddFile(file_path, module_name, content) ==
    /\ Store(AddFileState(Self, file_path, module_name, content))
    /\ last' = [Call("add_file", file_path, module_name) EXCEPT
                  !.popped = DictGet(pending_module_dependents, module_name, {}),
                  !.content = content,
                  !.again = /\ last.op = "add_file"
                            /\ last.path = file_path
                            /\ last.module = module_name
                            /\ last.content = content]
    /\ ret' = None

AddDependency(from_file, to_module) ==
    /\ Store(AddDependencyState(Self, from_file, to_module))
    /\ last' = Call("add_dependency", from_file, to_module)
    /\ ret' = None

\* The fields no query assigns.
maps == <<file_to_module, module_to_file, file_contents, pending_module_dependents>>

\* The queries look their keys up with dict.get: line 101 for the path asked
\* about, line 115 likewise, line 136 for every node the dfs visits, line
\* 167 for every node emitted, line 206 for every node visited.
GetDependenciesCall(file_path) ==
    /\ ret' = GetDependencies(reverse_graph, file_path)
    /\ last' = Call("get_dependencies", file_path, None)
    /\ reverse_graph' = DictAfterGet(reverse_graph, file_path)
    /\ UNCHANGED <<graph, maps>>

GetDependentsCall(file_path) ==
    /\ ret' = GetDependents(graph, file_path)
    /\ last' = Call("get_dependents", file_path, None)
    /\ graph' = OAfterGet(graph, file_path)
    /\ UNCHANGED <<reverse_graph, maps>>

GetAllDependenciesCall(file_path) ==
    /\ ret' \in GetAllDependencies(reverse_graph, file_path)
    /\ last' = Call("get_all_dependencies", file_path, None)
    /\ reverse_graph' = DictAfterGets(reverse_graph, {file_path} \cup ret')
    /\ UNCHANGED <<graph, maps>>

TopologicalSortCall ==
    /\ ret' \in TopologicalSort(graph)
    /\ last' = Call("topological_sort", None, None)
    /\ graph' = OAfterGets(graph, SeqToSet(ret'))
    /\ UNCHANGED <<reverse_graph, maps>>

DetectCyclesCall ==
    /\ ret' \in DetectCycles(graph)
    /\ last' = Call("detect_cycles", None, None)
    /\ graph' = OAfterGets(graph, OKeys(graph))
    /\ UNCHANGED <<reverse_graph, maps>>

GetStatisticsCall ==
    /\ ret' = GetStatistics(graph)
    /\ last' = Call("get_statistics", None, None)
    /\ UNCHANGED object

\* ret is the data written to the output file.
ExportJsonCall ==
    /\ ret' \in ExportJson(graph, reverse_graph, file_to_module)
    /\ last' = Call("export_json", None, None)
    /\ graph' = OAfterGets(graph, SeqToSet(ret'.topological_order))
    /\ reverse_graph' = DictAfterGets(reverse_graph, OKeys(graph))
    /\ UNCHANGED maps

GetRestorationOrderCall(start_file) ==
    /\ \E run \in GetRestorationOrderRuns(graph, reverse_graph, start_file) :
          /\ graph' = run[1]
          /\ ret' = run[2]
    /\ last' = Call("get_restoration_order", start_file, None)
    /\ UNCHANGED <<reverse_graph, file_to_module, module_to_file, file_contents,
                   pending_module_dependents>>

\* The read-only calls, made in any state.
Query ==
    \/ \E p \in Paths : GetDependenciesCall(p)
    \/ \E p \in Paths : GetDependentsCall(p)
    \/ \E p \in Paths : GetAllDependenciesCall(p)
    \/ TopologicalSortCall
    \/ DetectCyclesCall
    \/ GetStatisticsCall
    \/ \E p \in Paths : GetRestorationOrderCall(p)

\* No resolver and no decoder stand beside a dependency graph that is used
\* on its own.
NoGraph ==
    /\ graph = <<>>
    /\ reverse_graph = EmptyDict
    /\ file_to_module = EmptyDict
    /\ module_to_file = EmptyDict
    /\ file_contents = EmptyDict
    /\ pending_module_dependents = EmptyDict

NoResolver ==
    /\ base_paths = <<>>
    /\ fs = {}
    /\ source = <<>>

NoDecoder ==
    /\ processed_files = {}
    /\ failed_files = {}
    /\ restored_files = {}
    /\ output_files = EmptyDict
    /\ restoration_order = <<>>
    /\ attempts = <<>>
    /\ pc = "idle"
    /\ files_to_process = <<>>
    /\ processed = {}
    /\ max_depth = 0
    /\ analysed = <<>>

\* --------------------------------------------------------------- the callers
\* A call of a project: register a file under its module name, or record
\* that a file requires a module.
FileCall(p, m) == [op |-> "add_file", path |-> p, module |-> m]
DepCall(p, m) == [op |-> "add_dependency", path |-> p, module |-> m]

\* The diamond: A requires b and c, B and C both require d.
Diamond ==
    {FileCall("A", "a"), FileCall("B", "b"), FileCall("C", "c"), FileCall("D", "d"),
     DepCall("A", "b"), DepCall("A", "c"), DepCall("B", "d"), DepCall("C", "d")}

\* The cycle A -> B -> C -> A: B requires a, C requires b, A requires c.
Cycle3 ==
    {FileCall("A", "a"), FileCall("B", "b"), FileCall("C", "c"),
     DepCall("B", "a"), DepCall("C", "b"), DepCall("A", "c")}

\* The kite: B and A require d, C requires b, A requires c.
Kite ==
    {FileCall("A", "a"), FileCall("B", "b"), FileCall("C", "c"), FileCall("D", "d"),
     DepCall("B", "d"), DepCall("A", "d"), DepCall("C", "b"), DepCall("A", "c")}

Projects == {Diamond, Cycle3, Kite}

\* A caller either makes any MaxCalls mutating calls over FreePaths and
\* FreeModules, repeats included, or makes the calls of one project, each
\* once, in any order; it queries whenever it likes.
Init ==
    /\ InitObject
    /\ \/ budget = MaxCalls /\ project = {}
       \/ budget = 0 /\ project \in Projects
    /\ pool = project
    /\ NoResolver
    /\ NoDecoder

FreeAddFile ==
    /\ budget > 0
    /\ \E p \in FreePaths, m \in FreeModules, c \in FreeContents : AddFile(p, m, c)
    /\ budget' = budget - 1
    /\ UNCHANGED <<project, pool, resolver, decoder>>

FreeAddDependency ==
    /\ budget > 0
    /\ \E p \in FreePaths, m \in FreeModules : AddDependency(p, m)
    /\ budget' = budget - 1
    /\ UNCHANGED <<project, pool, resolver, decoder>>

ProjectAddFile ==
    /\ \E call \in pool :
          /\ call.op = "add_file"
          /\ AddFile(call.path, call.module, None)
          /\ pool' = pool \ {call}
    /\ UNCHANGED <<budget, project, resolver, decoder>>

ProjectAddDependency ==
    /\ \E call \in pool :
          /\ call.op = "add_dependency"
          /\ AddDependency(call.path, call.module)
          /\ pool' = pool \ {call}
    /\ UNCHANGED <<budget, project, resolver, decoder>>

Next ==
    \/ FreeAddFile
    \/ FreeAddDependency
    \/ ProjectAddFile
    \/ ProjectAddDependency
    \/ Query /\ UNCHANGED <<budget, project, pool, resolver, decoder>>

Spec == Init /\ [][Next]_vars

\* The same caller, exporting the graph whenever it likes instead of querying.
NextExport ==
    \/ FreeAddFile
    \/ FreeAddDependency
    \/ ProjectAddFile
    \/ ProjectAddDependency
    \/ ExportJsonCall /\ UNCHANGED <<budget, project, pool, resolver, decoder>>

SpecExport == Init /\ [][NextExport]_vars

\* ============================================================== properties
\* The nodes and the edges of the two adjacency maps.
Nodes == OKeys(graph)
ForwardEdges == {e \in Paths \X Paths : e[2] \in OGet(graph, e[1], {})}
ReverseEdges == {e \in Paths \X Paths : e[1] \in DictGet(reverse_graph, e[2], {})}

\* C1: in every reachable state the two adjacency maps mirror each other:
\* B is in forward[A] iff A is in reverse[B], that is P is in
\* get_dependencies(C) iff C is in get_dependents(P).
C1_EdgesMirrored ==
    \A P \in Paths, C \in Paths :
        (P \in GetDependencies(reverse_graph, C)) <=> (C \in GetDependents(graph, P))

\* An add_file has just turned two or more pending references into edges.
C1_Witness ==
    /\ last.op = "add_file"
    /\ Cardinality(last.popped) >= 2
    /\ Cardinality(ForwardEdges) >= 2

\* C2: an add_file(P, m) step leaves no pending entry for m, and every
\* consumer that was pending on m before the step has P among its
\* dependencies and is among the dependents of P after it.
C2_PendingResolved ==
    [][last'.op = "add_file" =>
         /\ last'.module \notin DOMAIN pending_module_dependents'
         /\ \A C \in DictGet(pending_module_dependents, last'.module, {}) :
               /\ last'.path \in GetDependencies(reverse_graph', C)
               /\ C \in GetDependents(graph', last'.path)]_vars

\* An add_file has just resolved a consumer that no add_file ever registered.
C2_Witness ==
    /\ last.op = "add_file"
    /\ \E C \in last.popped :
          /\ C \notin DOMAIN file_to_module
          /\ last.path \in GetDependencies(reverse_graph, C)

\* C3: after add_dependency(C, m) the reference is recorded: when m is mapped
\* to a file the edge file -> C is in both adjacency maps, otherwise C is in
\* the pending set of m.
C3_ReferenceKept ==
    last.op = "add_dependency" =>
        IF last.module \in DOMAIN module_to_file
        THEN /\ last.path \in GetDependents(graph, module_to_file[last.module])
             /\ module_to_file[last.module] \in GetDependencies(reverse_graph, last.path)
        ELSE last.path \in DictGet(pending_module_dependents, last.module, {})

\* An add_dependency on a module that no file provides went to the pending map.
C3_Witness ==
    /\ last.op = "add_dependency"
    /\ last.module \notin DOMAIN module_to_file
    /\ last.path \in DictGet(pending_module_dependents, last.module, {})
    /\ ForwardEdges # {}

\* The paths reachable from p along one or more edges of the relation E.
RECURSIVE ReachFrom(_, _)
ReachFrom(E, seen) ==
    LET more == seen \cup {e[2] : e \in {f \in E : f[1] \in seen}}
    IN IF more = seen THEN seen ELSE ReachFrom(E, more)
Reachable(E, p) == ReachFrom(E, {e[2] : e \in {f \in E : f[1] = p}})

\* The nodes that lie on a directed cycle of the forward graph.
OnCycle == {n \in Paths : n \in Reachable(ForwardEdges, n)}
Acyclic == OnCycle = {}

\* A list without repeated elements.
NoDuplicates(s) == \A i \in 1..Len(s), j \in 1..Len(s) : s[i] = s[j] => i = j

\* x comes strictly before y in the list s.
Before(s, x, y) == \E i \in 1..Len(s), j \in 1..Len(s) : i < j /\ s[i] = x /\ s[j] = y

\* C4: on an acyclic graph topological_sort returns every node exactly once,
\* and for every edge dependency -> consumer the dependency comes strictly
\* before the consumer.
C4_SortsAcyclicGraph ==
    (last.op = "topological_sort" /\ Acyclic) =>
        /\ SeqToSet(ret) = Nodes
        /\ NoDuplicates(ret)
        /\ \A e \in ForwardEdges : Before(ret, e[1], e[2])

\* The whole diamond has been sorted.
C4_Witness ==
    /\ last.op = "topological_sort"
    /\ Acyclic
    /\ Cardinality(Nodes) = 4
    /\ Cardinality(ForwardEdges) = 4
    /\ Len(ret) = 4

\* C5: on a graph with a cycle (a file that requires its own module included)
\* topological_sort returns a list without duplicates, shorter than the node
\* count, holding no node of a cycle, in which every node comes after all of
\* its direct dependencies.
C5_SortsAroundCycle ==
    (last.op = "topological_sort" /\ ~Acyclic) =>
        /\ NoDuplicates(ret)
        /\ SeqToSet(ret) \subseteq Nodes
        /\ Len(ret) < Cardinality(Nodes)
        /\ SeqToSet(ret) \cap OnCycle = {}
        /\ \A i \in 1..Len(ret) :
              \A dep \in GetDependencies(reverse_graph, ret[i]) :
                  \E j \in 1..(i - 1) : ret[j] = dep

\* A graph with a cycle whose sort still emitted an edge's two ends.
C5_Witness ==
    /\ last.op = "topological_sort"
    /\ ~Acyclic
    /\ Len(ret) >= 2
    /\ \E e \in ForwardEdges : Before(ret, e[1], e[2])

\* The forward graph's only cycle is x -> y -> z -> x.
OnlyCycle(x, y, z) ==
    /\ Cardinality({x, y, z}) = 3
    /\ OnCycle = {x, y, z}
    /\ {e \in ForwardEdges : e[1] \in OnCycle /\ e[2] \in OnCycle}
         = {<<x, y>>, <<y, z>>, <<z, x>>}

\* C6: detect_cycles returns the empty list iff the forward graph has no
\* directed cycle, and when the only cycle is x -> y -> z -> x one of the
\* cycles returned has the node set {x, y, z}.
C6_CyclesDetected ==
    last.op = "detect_cycles" =>
        /\ (ret = <<>>) <=> Acyclic
        /\ \A x \in Paths, y \in Paths, z \in Paths :
              OnlyCycle(x, y, z) => \E i \in 1..Len(ret) : SeqToSet(ret[i]) = {x, y, z}

\* detect_cycles has answered on the cycle A -> B -> C -> A.
C6_Witness ==
    /\ last.op = "detect_cycles"
    /\ OnlyCycle("A", "B", "C")
    /\ \E i \in 1..Len(ret) : SeqToSet(ret[i]) = {"A", "B", "C"}

\* C7: get_all_dependencies(p) returns exactly the paths reachable from p
\* along one or more consumer -> dependency edges, cycles or not; on the
\* diamond it returns {B, C, D} for A.
C7_ClosureIsReachable ==
    last.op = "get_all_dependencies" =>
        ret = Reachable({<<e[2], e[1]>> : e \in ReverseEdges}, last.path)

\* The diamond is complete and A's closure has been asked for.
DiamondBuilt ==
    ForwardEdges = {<<"B", "A">>, <<"C", "A">>, <<"D", "B">>, <<"D", "C">>}
C7_Witness ==
    /\ last.op = "get_all_dependencies"
    /\ last.path = "A"
    /\ DiamondBuilt
    /\ ret = {"B", "C", "D"}

\* get_all_dependencies has answered for a node of a cycle.
C7_WitnessCycle ==
    /\ last.op = "get_all_dependencies"
    /\ last.path \in OnCycle
    /\ last.path \in ret

\* The calls of its project a caller has made, the files it has registered
\* and the references it has recorded.
Done == project \ pool
DoneFiles == {c \in Done : c.op = "add_file"}
DoneRefs == {c \in Done : c.op = "add_dependency"}

\* The edges that the set of calls made stands for: file -> consumer for
\* every recorded reference to the module of a registered file.
ExpectedEdges ==
    {<<x[1].path, x[2].path>> : x \in {y \in DoneFiles \X DoneRefs : y[1].module = y[2].module}}

\* C8: for files with distinct paths and distinct module names and a fixed
\* set of references, the forward and the reverse edge sets depend on the set
\* of calls made only, not on their order; so when a consumer requires the
\* module of a file, topological_sort of the (acyclic) graph places the file
\* before the consumer whichever call came first.
C8_OrderIndependent ==
    project # {} =>
        /\ ForwardEdges = ExpectedEdges
        /\ ReverseEdges = ExpectedEdges
        /\ (last.op = "topological_sort" /\ Acyclic) =>
              \A e \in ExpectedEdges : Before(ret, e[1], e[2])

\* main (A) requires util (b, the file B); main entered the graph before
\* util was registered, and the sort places util first.
C8_Witness ==
    /\ Done = {FileCall("A", "a"), FileCall("B", "b"), DepCall("A", "b")}
    /\ OKeySeq(graph) = <<"A", "B">>
    /\ last.op = "topological_sort"
    /\ ret = <<"B", "A">>

\* C9: a get_restoration_order step leaves the forward and reverse adjacency,
\* the module maps, the content cache and the pending map as they were.
C9_RestorationOrderReadOnly ==
    [][last'.op = "get_restoration_order" => object' = object]_vars

\* get_restoration_order has sorted a subgraph of a larger graph.
C9_Witness ==
    /\ last.op = "get_restoration_order"
    /\ Len(ret) >= 2
    /\ Len(ret) < Cardinality(Nodes)

\* C10: on an acyclic graph get_restoration_order(start) returns exactly the
\* paths of get_all_dependencies(start) together with start, each once.
C10_OrderIsClosure ==
    (last.op = "get_restoration_order" /\ Acyclic) =>
        /\ NoDuplicates(ret)
        /\ SeqToSet(ret) =
             Reachable({<<e[2], e[1]>> : e \in ReverseEdges}, last.path) \cup {last.path}

\* C21: no module name is both mapped to a file and present in the pending
\* map; a pending entry for m disappears only in an add_file step whose
\* module name is m; and an add_dependency on a module that is mapped to a
\* file leaves the pending map as it was.
C21_PendingOnlyUnregistered ==
    /\ [](DOMAIN module_to_file \cap DOMAIN pending_module_dependents = {})
    /\ [][/\ \A m \in DOMAIN pending_module_dependents :
                m \notin DOMAIN pending_module_dependents'
                => (last'.op = "add_file" /\ last'.module = m)
          /\ (last'.op = "add_dependency" /\ last'.module \in DOMAIN module_to_file)
             => pending_module_dependents' = pending_module_dependents]_vars

\* A reference to a registered module has just been recorded as an edge
\* while another module is still pending and an earlier pending reference
\* has been resolved by add_file.
C21_Witness ==
    /\ last.op = "add_dependency"
    /\ last.module \in DOMAIN module_to_file
    /\ DOMAIN pending_module_dependents # {}
    /\ Cardinality(ForwardEdges) >= 2

\* C24: every cycle returned by detect_cycles is a closed walk in the forward
\* graph: it has at least two elements, its first and last elements are the
\* same node, and each element is followed by one of its dependents.
C24_CyclesAreClosedWalks ==
    last.op = "detect_cycles" =>
        \A i \in 1..Len(ret) :
            /\ Len(ret[i]) >= 2
            /\ ret[i][1] = ret[i][Len(ret[i])]
            /\ \A k \in 1..(Len(ret[i]) - 1) :
                  ret[i][k + 1] \in GetDependents(graph, ret[i][k])

\* detect_cycles has reported a cycle that the scan entered from a node
\* outside of it.
C24_Witness ==
    /\ last.op = "detect_cycles"
    /\ \E i \in 1..Len(ret) : ret[i][1] # OKeySeq(graph)[1]
    /\ OGet(graph, OKeySeq(graph)[1], {}) # {}

\* The strongly connected region of the forward graph that holds n.
Region(n) ==
    {n} \cup {m \in Paths : m \in Reachable(ForwardEdges, n) /\ n \in Reachable(ForwardEdges, m)}

\* C25: for every strongly connected region of the forward graph that
\* contains a cycle (mutually reachable nodes, or a node with a self-edge)
\* detect_cycles returns at least one cycle all of whose nodes lie in it.
C25_EveryRegionReported ==
    last.op = "detect_cycles" =>
        \A n \in OnCycle : \E i \in 1..Len(ret) : SeqToSet(ret[i]) \subseteq Region(n)

\* detect_cycles has answered on a graph with two regions that hold a cycle.
C25_Witness ==
    /\ last.op = "detect_cycles"
    /\ \E n \in OnCycle, m \in OnCycle : Region(n) # Region(m)
    /\ Len(ret) >= 2

\* C26: in the list get_restoration_order(start) returns on an acyclic
\* graph every dependency comes before each of its consumers, and start
\* comes after every member of its dependency closure; for a start that is
\* not a node of the graph the list is [start].
C26_OrderRespectsDependencies ==
    (last.op = "get_restoration_order" /\ Acyclic) =>
        /\ \A e \in ForwardEdges :
              (e[1] \in SeqToSet(ret) /\ e[2] \in SeqToSet(ret)) => Before(ret, e[1], e[2])
        /\ \A dep \in Reachable({<<e[2], e[1]>> : e \in ReverseEdges}, last.path) :
              Before(ret, dep, last.path)
        /\ last.path \notin Nodes => ret = <<last.path>>

\* C28: a reference to a module that is not registered stays pending as long
\* as no add_file registers the module; the add_dependency that records it
\* adds no edge and no node but its consumer; and topological_sort of an
\* acyclic graph still returns every node, the consumers that hold a pending
\* reference included.
C28_UnresolvedStaysPending ==
    /\ [][/\ \A m \in DOMAIN pending_module_dependents :
                m \notin DOMAIN module_to_file'
                => /\ m \in DOMAIN pending_module_dependents'
                   /\ pending_module_dependents[m] \subseteq pending_module_dependents'[m]
          /\ (last'.op = "add_dependency" /\ last'.module \notin DOMAIN module_to_file)
             => /\ ForwardEdges' = ForwardEdges
                /\ ReverseEdges' = ReverseEdges
                /\ OKeys(graph') = Nodes \cup {last'.path}]_vars
    /\ []((last.op = "topological_sort" /\ Acyclic)
          => /\ SeqToSet(ret) = Nodes
             /\ \A m \in DOMAIN pending_module_dependents :
                   pending_module_dependents[m] \subseteq SeqToSet(ret))

\* An acyclic graph with an edge has been sorted while a consumer of that
\* edge holds a reference to a module no file provides; the consumer is in
\* the list.
C28_Witness ==
    /\ last.op = "topological_sort"
    /\ Acyclic
    /\ \E m \in DOMAIN pending_module_dependents :
          /\ m \notin DOMAIN module_to_file
          /\ \E c \in pending_module_dependents[m] :
                /\ GetDependencies(reverse_graph, c) # {}
                /\ c \in SeqToSet(ret)

\* C29: the graph only grows: every step keeps every node and every edge of
\* both adjacency maps, also an add_file that registers a module name under
\* another path than before.
C29_GraphOnlyGrows ==
    [][/\ \A i \in 1..Len(graph) :
             /\ graph[i][1] \in OKeys(graph')
             /\ graph[i][2] \subseteq GetDependents(graph', graph[i][1])
       /\ \A k \in DOMAIN reverse_graph :
             /\ k \in DOMAIN reverse_graph'
             /\ reverse_graph[k] \subseteq GetDependencies(reverse_graph', k)]_vars

\* A module name has just been registered under a second path; the path it
\* had before is still a node and still has its edge to a consumer.
C29_Witness ==
    /\ last.op = "add_file"
    /\ \E old \in DOMAIN file_to_module :
          /\ old # last.path
          /\ file_to_module[old] = last.module
          /\ old \in Nodes
          /\ GetDependents(graph, old) # {}

\* C30: get_dependencies, get_dependents, get_all_dependencies,
\* topological_sort, detect_cycles and get_statistics are read-only: such a
\* step, also one asked about a path that is not a node, leaves the nodes,
\* both adjacency maps, the module maps, the content cache and the pending
\* map as they were.
C30_QueriesReadOnly ==
    [][last'.op \in {"get_dependencies", "get_dependents", "get_all_dependencies",
                     "topological_sort", "detect_cycles", "get_statistics"}
       => object' = object]_vars

\* get_dependents has just answered with the empty set for a path that is
\* no node of a graph that has edges and a pending reference.
C30_Witness ==
    /\ last.op = "get_dependents"
    /\ last.path \notin Nodes
    /\ last.path \notin DOMAIN reverse_graph
    /\ ret = {}
    /\ ForwardEdges # {}
    /\ DOMAIN pending_module_dependents # {}

\* C34: in the data export_json writes, each file record's dependencies_count
\* is the number of files the file directly depends on (the size of
\* get_dependencies) and its dependents_count is the number of files that
\* directly depend on it (the size of get_dependents).
C34_CountsMatchQueries ==
    last.op = "export_json"
    => \A i \in 1..Len(ret.files) :
          /\ ret.files[i].dependencies_count
                = Cardinality(GetDependencies(reverse_graph, ret.files[i].file_path))
          /\ ret.files[i].dependents_count
                = Cardinality(GetDependents(graph, ret.files[i].file_path))

\* ================================================================ strings
\* A Python str is the sequence of its characters, a pathlib.Path the
\* sequence of its components (each a str).
RECURSIVE Split(_, _)
\* str.split(sep) for a one-character separator.
Split(s, sep) ==
    IF \A i \in 1..Len(s) : s[i] # sep
    THEN <<s>>
    ELSE LET i == CHOOSE k \in 1..Len(s) :
                      s[k] = sep /\ \A j \in 1..(k - 1) : s[j] # sep
         IN <<SubSeq(s, 1, i - 1)>> \o Split(SubSeq(s, i + 1, Len(s)), sep)

RECURSIVE Join(_, _)
\* sep.join(parts), which is also os.path.join(*parts) with sep = "/" for
\* parts that are neither empty nor absolute.
Join(parts, sep) ==
    IF parts = <<>> THEN <<>>
    ELSE IF Len(parts) = 1 THEN parts[1]
    ELSE parts[1] \o <<sep>> \o Join(Tail(parts), sep)

RECURSIVE LStrip(_, _)
\* str.lstrip(ch)
LStrip(s, ch) == IF s # <<>> /\ Head(s) = ch THEN LStrip(Tail(s), ch) ELSE s

\* str.endswith(suffix)
EndsWith(s, suffix) ==
    /\ Len(suffix) <= Len(s)
    /\ SubSeq(s, Len(s) - Len(suffix) + 1, Len(s)) = suffix

\* The slice s[:-n], n > 0.
DropLast(s, n) == SubSeq(s, 1, Len(s) - n)

\* Path(s): the components of a relative path string; empty components
\* (doubled or trailing slashes) vanish.
PathOf(s) == SelectSeq(Split(s, "/"), LAMBDA c : c # <<>>)

\* None where the other values are strings, paths or lists: a call without
\* that argument, a function without that result.
NoPath == <<>>

\* =============================================================== resolver
\* src/src/lua_module_resolver.py, LuaModuleResolver.
DotLuaUnluac == <<".", "l", "u", "a", ".", "u", "n", "l", "u", "a", "c">>
DotLua == <<".", "l", "u", "a">>
DotSo == <<".", "s", "o">>
DotDll == <<".", "d", "l", "l">>
DotDylib == <<".", "d", "y", "l", "i", "b">>

\* resolve_module_to_path: the list extensions, in its order.
extensions == <<DotLuaUnluac, DotLua, DotSo, DotDll, DotDylib>>

\* Method 1 of the loop body: base / 'seg1/.../segN' / ext.lstrip('.')
NestedCandidate(base_path, path_parts, ext) ==
    PathOf(base_path) \o PathOf(Join(path_parts, "/")) \o PathOf(LStrip(ext, "."))

\* Method 2 of the loop body: Path(os.path.join(base, seg1, ..., segN) + ext)
JoinedCandidate(base_path, path_parts, ext) ==
    PathOf(Join(<<base_path>> \o path_parts, "/") \o ext)

RECURSIVE ResolveInBase(_, _, _, _)
\* The inner loop over extensions from the j-th on: per extension method 1,
\* then method 2; Path.exists() is membership in the file system.
ResolveInBase(files, base_path, path_parts, j) ==
    IF j > Len(extensions) THEN NoPath
    ELSE IF NestedCandidate(base_path, path_parts, extensions[j]) \in files
         THEN NestedCandidate(base_path, path_parts, extensions[j])
    ELSE IF JoinedCandidate(base_path, path_parts, extensions[j]) \in files
         THEN JoinedCandidate(base_path, path_parts, extensions[j])
    ELSE ResolveInBase(files, base_path, path_parts, j + 1)

RECURSIVE ResolveFromBase(_, _, _, _)
\* The outer loop over the search roots from the i-th on.
ResolveFromBase(roots, files, path_parts, i) ==
    IF i > Len(roots) THEN NoPath
    ELSE LET found == ResolveInBase(files, roots[i], path_parts, 1)
         IN IF found # NoPath THEN found
            ELSE ResolveFromBase(roots, files, path_parts, i + 1)

ResolveModuleToPath(roots, files, module_name) ==
    ResolveFromBase(roots, files, Split(module_name, "."), 1)

\* An add_search_path that puts the new root first.
AddSearchPathFirst(roots, path) ==
    IF \E i \in 1..Len(roots) : roots[i] = path THEN roots ELSE <<path>> \o roots

\* add_search_path: append unless present.
AddSearchPath(roots, path) ==
    IF \E i \in 1..Len(roots) : roots[i] = path THEN roots ELSE Append(roots, path)

\* remove_search_path: list.remove drops the first occurrence.
RemoveSearchPath(roots, path) ==
    IF \E i \in 1..Len(roots) : roots[i] = path
    THEN LET i == CHOOSE k \in 1..Len(roots) :
                      roots[k] = path /\ \A j \in 1..(k - 1) : roots[j] # path
         IN SubSeq(roots, 1, i - 1) \o SubSeq(roots, i + 1, Len(roots))
    ELSE roots

\* ------------------------------------------------ the resolver's callers
\* How many paths exist in the file system.
MaxFiles == 3

\* The search roots: "lua", the first default root of the constructor, and
\* one more.
RootLua == <<"l", "u", "a">>
RootOpt == <<"o", "p", "t">>
SearchRoots == {RootLua, RootOpt}

\* The module names asked for: "a.b".
ModuleAB == <<"a", ".", "b">>
ResolveModules == {ModuleAB}

\* What may exist below a root for module a.b: a file or directory of either
\* shape the resolver probes, the directory a/b itself, and a/b.txt.
FsEntries ==
    UNION {{NestedCandidate(r, Split(ModuleAB, "."), extensions[j]),
            JoinedCandidate(r, Split(ModuleAB, "."), extensions[j])} :
           r \in SearchRoots, j \in 1..Len(extensions)}
    \cup {PathOf(r) \o <<<<"a">>, <<"b">>>> : r \in SearchRoots}
    \cup {PathOf(r) \o <<<<"a">>, <<"b", ".", "t", "x", "t">>>> : r \in SearchRoots}

RECURSIVE SubsetsUpTo(_, _)
\* The subsets of S of at most k elements.
SubsetsUpTo(S, k) ==
    IF k = 0 THEN {{}}
    ELSE LET smaller == SubsetsUpTo(S, k - 1)
         IN smaller \cup {T \cup {x} : T \in smaller, x \in S}

\* __init__(base_paths): the list the resolver is constructed with.
InitialBasePaths == {<<>>} \cup {<<r>> : r \in SearchRoots}

InitResolver ==
    /\ NoGraph
    /\ last = Call("__init__", NoPath, NoPath)
    /\ ret = NoPath
    /\ budget = 0
    /\ project = {}
    /\ pool = {}
    /\ NoDecoder
    /\ base_paths \in InitialBasePaths
    /\ fs \in SubsetsUpTo(FsEntries, MaxFiles)
    /\ source = <<>>

ResolveModuleToPathCall(module_name) ==
    /\ ret' = ResolveModuleToPath(base_paths, fs, module_name)
    /\ last' = Call("resolve_module_to_path", NoPath, module_name)
    /\ UNCHANGED <<base_paths, fs>>

AddSearchPathCall(path) ==
    /\ base_paths' = AddSearchPath(base_paths, path)
    /\ ret' = NoPath
    /\ last' = Call("add_search_path", path, NoPath)
    /\ UNCHANGED fs

RemoveSearchPathCall(path) ==
    /\ base_paths' = RemoveSearchPath(base_paths, path)
    /\ ret' = NoPath
    /\ last' = Call("remove_search_path", path, NoPath)
    /\ UNCHANGED fs

GetSearchPathsCall ==
    /\ ret' = base_paths
    /\ last' = Call("get_search_paths", NoPath, NoPath)
    /\ UNCHANGED <<base_paths, fs>>

NextResolver ==
    \/ \E m \in ResolveModules : ResolveModuleToPathCall(m) /\ UNCHANGED <<source, object, budget, project, pool, decoder>>
    \/ \E r \in SearchRoots : AddSearchPathCall(r) /\ UNCHANGED <<source, object, budget, project, pool, decoder>>
    \/ \E r \in SearchRoots : RemoveSearchPathCall(r) /\ UNCHANGED <<source, object, budget, project, pool, decoder>>
    \/ GetSearchPathsCall /\ UNCHANGED <<source, object, budget, project, pool, decoder>>

SpecResolver == InitResolver /\ [][NextResolver]_vars

\* The roots of the list, by position, that hold a file of the canonical
\* shape base/seg1/.../segN<ext> for the module.
JoinedExts(root, module_name) ==
    {j \in 1..Len(extensions) :
        JoinedCandidate(root, Split(module_name, "."), extensions[j]) \in fs}
CandidateRoots(module_name) ==
    {i \in 1..Len(base_paths) : JoinedExts(base_paths[i], module_name) # {}}
Min(S) == CHOOSE x \in S : \A y \in S : x <= y
\* The paths that exist below a root.
Below(root) == {p \in fs : SubSeq(p, 1, Len(PathOf(root))) = PathOf(root)}

\* C11: when candidate files base/seg1/.../segN<ext> for a module exist under
\* several search roots, resolve returns a candidate file under the earliest
\* of these roots in the configured order, whatever its extension.
C11_BaseMajor ==
    (last.op = "resolve_module_to_path" /\ Cardinality(CandidateRoots(last.module)) >= 2)
    => LET first == base_paths[Min(CandidateRoots(last.module))]
       IN \E j \in JoinedExts(first, last.module) :
              ret = JoinedCandidate(first, Split(last.module, "."), extensions[j])

\* C12: when several files base/seg1/.../segN<ext> exist under the root that
\* is the first to hold anything, resolve returns the one of them whose
\* extension comes first in the list of extensions.
C12_ExtensionPriority ==
    last.op = "resolve_module_to_path"
    => \A i \in 1..Len(base_paths) :
          (/\ \A k \in 1..(i - 1) : Below(base_paths[k]) = {}
           /\ Cardinality(JoinedExts(base_paths[i], last.module)) >= 2)
          => ret = JoinedCandidate(base_paths[i], Split(last.module, "."),
                                   extensions[Min(JoinedExts(base_paths[i], last.module))])

\* C19: add_search_path(x) keeps every path that resolve returned before it:
\* the roots that were there stay first, in their order, and each module
\* that resolved to p still resolves to p; resolve_module_to_path leaves the
\* list of roots alone.
C19_AddKeepsResolved ==
    [][/\ last'.op = "add_search_path"
          => /\ SubSeq(base_paths', 1, Len(base_paths)) = base_paths
             /\ \A m \in ResolveModules :
                   ResolveModuleToPath(base_paths, fs, m) # NoPath
                   => ResolveModuleToPath(base_paths', fs', m)
                        = ResolveModuleToPath(base_paths, fs, m)
       /\ last'.op = "resolve_module_to_path" => base_paths' = base_paths]_vars

\* A root has been appended behind another one; both hold a candidate for
\* a.b, the new root the one with the extension of higher priority, and a.b
\* resolves below the old root.
C19_Witness ==
    /\ last.op = "add_search_path"
    /\ Len(base_paths) = 2
    /\ base_paths[2] = last.path
    /\ JoinedCandidate(base_paths[1], Split(ModuleAB, "."), DotLua) \in fs
    /\ JoinedCandidate(base_paths[2], Split(ModuleAB, "."), DotLuaUnluac) \in fs
    /\ ResolveModuleToPath(base_paths, fs, ModuleAB)
         = JoinedCandidate(base_paths[1], Split(ModuleAB, "."), DotLua)

\* C27: every path resolve returns has the canonical shape
\* base/seg1/.../segN<ext> for a configured search root and a listed
\* extension; a file or directory of another shape below a root is never the
\* result.
C27_CanonicalShapeOnly ==
    (last.op = "resolve_module_to_path" /\ ret # NoPath)
    => \E i \in 1..Len(base_paths), j \in 1..Len(extensions) :
          ret = JoinedCandidate(base_paths[i], Split(last.module, "."), extensions[j])

\* ================================================= add_file with contents
\* How many mutating calls the caller that passes contents makes.
MaxContentCalls == 4

\* The paths and module names of the caller that passes contents.
ContentPaths == {"A", "B"}
ContentModules == {"a", "b"}

InitContent ==
    /\ InitObject
    /\ budget = MaxContentCalls
    /\ project = {}
    /\ pool = {}
    /\ NoResolver
    /\ NoDecoder

ContentAddFile ==
    /\ budget > 0
    /\ \E p \in ContentPaths, m \in ContentModules, c \in Contents : AddFile(p, m, c)
    /\ budget' = budget - 1
    /\ UNCHANGED <<project, pool, resolver, decoder>>

ContentAddDependency ==
    /\ budget > 0
    /\ \E p \in ContentPaths, m \in ContentModules : AddDependency(p, m)
    /\ budget' = budget - 1
    /\ UNCHANGED <<project, pool, resolver, decoder>>

NextContent ==
    \/ ContentAddFile
    \/ ContentAddDependency

SpecContent == InitContent /\ [][NextContent]_vars

\* C13: the content cache is write-once: an add_file for a path whose content
\* is cached leaves the cached content of that path as it was, whatever
\* content it passes.
C13_CacheWriteOnce ==
    [][(last'.op = "add_file" /\ last'.path \in DOMAIN file_contents)
       => file_contents'[last'.path] = file_contents[last'.path]]_vars

\* C14: the two module maps are a consistent pair: module_to_file maps m to p
\* if and only if file_to_module maps p to m.
C14_MapsConsistent ==
    \A m \in Modules, p \in Paths :
        (m \in DOMAIN module_to_file /\ module_to_file[m] = p)
        <=> (p \in DOMAIN file_to_module /\ file_to_module[p] = m)

\* C15: add_file is idempotent: an add_file with the arguments of the add_file
\* made just before it leaves all six fields of the graph as they were.
C15_AddFileIdempotent ==
    [][(/\ last.op = "add_file"
        /\ last'.op = "add_file"
        /\ last'.path = last.path
        /\ last'.module = last.module
        /\ last'.content = last.content)
       => object' = object]_vars

\* An add_file has been repeated with content, after its first call cached
\* the content and turned a pending reference into an edge.
C15_Witness ==
    /\ last.op = "add_file"
    /\ last.again
    /\ last.content \notin {None, ""}
    /\ file_contents[last.path] = last.content
    /\ OGet(graph, last.path, {}) # {}
    /\ pending_module_dependents = EmptyDict
    /\ budget = 0

\* ================================================== get_module_dependencies
\* The characters \s matches, of those that occur in the files.
Whitespace == {" ", "\n"}
\* The characters of the class ["\'].
Quotes == {"\"", "'"}
\* The literal require of both patterns.
Require == <<"r", "e", "q", "u", "i", "r", "e">>

\* The text has the literal at position i.
HasAt(text, i, literal) ==
    /\ i + Len(literal) - 1 <= Len(text)
    /\ SubSeq(text, i, i + Len(literal) - 1) = literal

RECURSIVE SkipWhitespace(_, _)
\* \s*, greedy: the position behind the run of whitespace that starts at i.
SkipWhitespace(text, i) ==
    IF i <= Len(text) /\ text[i] \in Whitespace
    THEN SkipWhitespace(text, i + 1) ELSE i

RECURSIVE SkipName(_, _)
\* [^"\']*, greedy: the position behind the run of non-quotes that starts at i.
SkipName(text, i) ==
    IF i <= Len(text) /\ text[i] \notin Quotes
    THEN SkipName(text, i + 1) ELSE i

\* A quoted group ["\']([^"\']+)["\'] at position i: <<the group, the position
\* behind the closing quote>>, or <<>> when there is no match.
MatchQuoted(text, i) ==
    LET e == SkipName(text, i + 1)
    IN IF /\ i <= Len(text) /\ text[i] \in Quotes
          /\ e > i + 1
          /\ e <= Len(text) /\ text[e] \in Quotes
       THEN <<SubSeq(text, i + 1, e - 1), e + 1>>
       ELSE <<>>

\* r'require\s*\(\s*["\']([^"\']+)["\']\s*\)' at position i.
MatchParenthesized(text, i) ==
    LET open == SkipWhitespace(text, i + Len(Require))
        quoted == MatchQuoted(text, SkipWhitespace(text, open + 1))
    IN IF HasAt(text, i, Require) /\ HasAt(text, open, <<"(">>) /\ quoted # <<>>
          /\ HasAt(text, SkipWhitespace(text, quoted[2]), <<")">>)
       THEN <<quoted[1], SkipWhitespace(text, quoted[2]) + 1>>
       ELSE <<>>

\* r'require\s+["\']([^"\']+)["\']' at position i.
MatchBare(text, i) ==
    LET literal == SkipWhitespace(text, i + Len(Require))
        quoted == MatchQuoted(text, literal)
    IN IF HasAt(text, i, Require) /\ literal > i + Len(Require) /\ quoted # <<>>
       THEN quoted
       ELSE <<>>

\* A pattern matched at position i.
MatchAt(pattern, text, i) ==
    IF pattern = "parenthesized" THEN MatchParenthesized(text, i) ELSE MatchBare(text, i)

RECURSIVE FindAll(_, _, _)
\* re.findall(pattern, content): the groups of the matches found from
\* position i on, leftmost first, none overlapping.
FindAll(pattern, text, i) ==
    IF i > Len(text) THEN <<>>
    ELSE LET m == MatchAt(pattern, text, i)
         IN IF m # <<>> THEN <<m[1]>> \o FindAll(pattern, text, m[2])
            ELSE FindAll(pattern, text, i + 1)

\* A list of the matches as they were found.
ListAsFound(dependencies) == {dependencies}

\* list(set(dependencies)): the elements once each, in any order.
ListOfSet(dependencies) == Orderings(SeqToSet(dependencies))

\* get_module_dependencies on a file that is read: every list it may return.
GetModuleDependencies(content) ==
    ListOfSet(FindAll("parenthesized", content, 1) \o FindAll("bare", content, 1))

\* ----------------------------------------------------------- the Lua files
\* How many statements the Lua file has.
MaxStatements == 3

\* The module names the file requires: "x.y" and "z".
ModuleXY == <<"x", ".", "y">>
ModuleZ == <<"z">>

\* A statement: a require call in one of the accepted syntaxes, with either
\* quote, or a call f() of something else.
Statements ==
    [form : {"parenthesized", "spaced", "bare"}, quote : Quotes,
     name : {ModuleXY, ModuleZ}]
    \cup {[form |-> "other", quote |-> "'", name |-> <<>>]}

\* The text of a statement.
Render(st) ==
    CASE st.form = "parenthesized" ->
            Require \o <<"(", st.quote>> \o st.name \o <<st.quote, ")">>
      [] st.form = "spaced" ->
            Require \o <<" ", "(", " ", st.quote>> \o st.name \o <<st.quote, " ", ")">>
      [] st.form = "bare" ->
            Require \o <<" ", st.quote>> \o st.name \o <<st.quote>>
      [] OTHER -> <<"f", "(", ")">>

\* The text of a file: its statements, one per line.
RenderAll(statements) ==
    Join([i \in 1..Len(statements) |-> Render(statements[i])], "\n")

\* The file that is read, and a path at which there is no file.
SourceFile == <<<<"l", "u", "a">>, <<"m", ".", "l", "u", "a">>>>
MissingFile == <<<<"l", "u", "a">>, <<"n", ".", "l", "u", "a">>>>

InitText ==
    /\ NoGraph
    /\ last = Call("__init__", NoPath, NoPath)
    /\ ret = NoPath
    /\ budget = 0
    /\ project = {}
    /\ pool = {}
    /\ NoDecoder
    /\ base_paths = <<>>
    /\ fs = {SourceFile}
    /\ source \in UNION {[1..n -> Statements] : n \in 0..MaxStatements}

\* get_module_dependencies(file_path): open() raises for a file that is not
\* there, and the method returns what it has found so far: nothing.
GetModuleDependenciesCall(file_path) ==
    /\ ret' \in (IF file_path \in fs
                 THEN GetModuleDependencies(RenderAll(source))
                 ELSE ListOfSet(<<>>))
    /\ last' = Call("get_module_dependencies", file_path, NoPath)
    /\ UNCHANGED <<resolver, object, budget, project, pool, decoder>>

NextText ==
    \E file_path \in {SourceFile, MissingFile} : GetModuleDependenciesCall(file_path)

SpecText == InitText /\ [][NextText]_vars

\* The module names of the require calls of the file.
Required == {source[i].name : i \in {k \in 1..Len(source) : source[k].form # "other"}}

\* C20: the list returned for a file that is read holds the module name of
\* each of its require calls, in either accepted syntax, exactly once, and
\* nothing else; for require("x.y") and require 'z' it holds "x.y" and "z".
C20_EachReferenceOnce ==
    (last.op = "get_module_dependencies" /\ last.path \in fs)
    => /\ SeqToSet(ret) = Required
       /\ \A i, j \in 1..Len(ret) : ret[i] = ret[j] => i = j

\* The file of the example, with a repeated reference besides: its list has
\* two elements.
C20_Witness ==
    /\ last.op = "get_module_dependencies"
    /\ last.path \in fs
    /\ Len(source) = 3
    /\ source[1] = [form |-> "parenthesized", quote |-> "\"", name |-> ModuleXY]
    /\ source[2] = [form |-> "bare", quote |-> "'", name |-> ModuleZ]
    /\ source[3].name = ModuleXY
    /\ SeqToSet(ret) = {ModuleXY, ModuleZ}
    /\ Len(ret) = 2

\* ================================================================ decoder
\* src/src/lua_decoder.py, LuaDecoder, with OpenRouterClient.restore_lua_code
\* of src/src/llm_client.py.

\* The directory name 'lua' that _extract_module_name looks for.
LuaDir == <<"l", "u", "a">>

\* PurePath.name
Name(path) == IF path = <<>> THEN <<>> ELSE path[Len(path)]

\* PurePath.stem of a file name: the name up to its last dot, unless that
\* dot is the first or the last character.
Stem(name) ==
    LET dots == {k \in 1..Len(name) : name[k] = "."}
        i == CHOOSE k \in dots : \A j \in dots : j <= k
    IN IF dots # {} /\ 1 < i /\ i < Len(name) THEN SubSeq(name, 1, i - 1) ELSE name

\* PurePath.suffixes of a file name.
Suffixes(name) ==
    IF name # <<>> /\ name[Len(name)] = "." THEN <<>>
    ELSE LET fields == Split(LStrip(name, "."), ".")
         IN [i \in 1..(Len(fields) - 1) |-> <<".">> \o fields[i + 1]]

\* _extract_module_name(file_path)
ExtractModuleName(file_path) ==
    LET parts == file_path
        found == {i \in 1..Len(parts) : parts[i] = LuaDir}
    IN IF found # {}
       THEN LET lua_index == CHOOSE i \in found : \A j \in found : i <= j
                module_parts == SubSeq(parts, lua_index + 1, Len(parts))
                n == Len(module_parts)
            IN IF module_parts # <<>> /\ EndsWith(module_parts[n], DotLuaUnluac)
               THEN Join([module_parts EXCEPT ![n] = DropLast(@, 10)], ".")
               ELSE IF module_parts # <<>> /\ EndsWith(module_parts[n], DotLua)
               THEN Join([module_parts EXCEPT ![n] = DropLast(@, 4)], ".")
               ELSE Join(module_parts, ".")
       ELSE LET filename == Stem(Name(file_path))
            IN IF EndsWith(filename, DotLua) THEN DropLast(filename, 4) ELSE filename

\* restore_code_in_order's default output_dir.
OutputDir == <<<<"o", "u", "t", "p", "u", "t">>>>

\* _restore_single_file, lines 324-341: the output file of a file given by
\* its path relative to the working directory.
OutputFile(file_path) ==
    LET relative_path == file_path
        parent == SubSeq(relative_path, 1, Len(relative_path) - 1)
        stem == Stem(Name(relative_path))
        new_name == IF EndsWith(stem, DotLua) THEN DropLast(stem, 4) ELSE stem
    IN IF Suffixes(Name(relative_path)) = <<DotLua, <<".", "u", "n", "l", "u", "a", "c">>>>
       THEN OutputDir \o parent \o <<new_name \o DotLua>>
       ELSE OutputDir \o relative_path

\* What OpenRouterClient.restore_lua_code returns: the code extracted from
\* the response, nothing when the response holds no text, and the content it
\* was given when the call of the API raised.
RestoredCode == "restored code"
RestoreLuaCode(content, llm) ==
    CASE llm = "answered" -> RestoredCode
      [] llm = "empty" -> ""
      [] llm = "raised" -> content

\* -------------------------------------------------------- the source trees
\* A source tree gives each of its files the module names it requires and
\* its text.
FileA == <<LuaDir, <<"a", ".", "l", "u", "a">>>>
FileB == <<LuaDir, <<"b", ".", "l", "u", "a">>>>
FileC == <<LuaDir, <<"c", ".", "l", "u", "a">>>>
FileD == <<LuaDir, <<"d">> \o DotLuaUnluac>>
Source(requires, text) == [requires |-> requires, text |-> text]

\* a requires b, b requires c.
Chain == (FileA :> Source({<<"b">>}, "text a") @@ FileB :> Source({<<"c">>}, "text b")
          @@ FileC :> Source({}, "text c"))
\* a requires b and d, the decompiled d and an empty b require nothing.
Mixed == (FileA :> Source({<<"b">>, <<"d">>}, "text a") @@ FileB :> Source({}, "")
          @@ FileD :> Source({}, "text d"))
\* a and b require each other, c requires a.
Mutual == (FileA :> Source({<<"b">>}, "text a") @@ FileB :> Source({<<"a">>}, "text b")
           @@ FileC :> Source({<<"a">>}, "text c"))
SourceTrees == {Chain, Mixed, Mutual}

\* The paths _extract_module_name is asked about.
NameDirs == {<<>>, <<<<"r">>>>, <<LuaDir>>, <<<<"r">>, LuaDir>>}
NameSegments == {<<<<"a">>>>, <<<<"a">>, <<"b">>>>}
NameSuffixes == {DotLuaUnluac, DotLua, DotSo, <<>>}
WithSuffix(segments, suffix) ==
    [segments EXCEPT ![Len(segments)] = @ \o suffix]
NamePaths ==
    {dir \o WithSuffix(segments, suffix) :
        dir \in NameDirs, segments \in NameSegments, suffix \in NameSuffixes}
    \cup FsEntries

\* LuaDecoder.__init__, for a source tree.
InitDecoder ==
    /\ NoGraph
    /\ last = Call("__init__", NoPath, NoPath)
    /\ ret = NoPath
    /\ budget = 0
    /\ project \in SourceTrees
    /\ pool = DOMAIN project
    /\ NoResolver
    /\ NoDecoder

\* _extract_module_name(file_path), asked of a decoder that has done nothing.
ExtractModuleNameCall(file_path) ==
    /\ pc = "idle"
    /\ pool = DOMAIN project
    /\ ret' = ExtractModuleName(file_path)
    /\ last' = Call("_extract_module_name", file_path, NoPath)
    /\ UNCHANGED <<object, budget, project, pool, resolver, decoder>>

RECURSIVE AddDependencies(_, _, _)
\* The loop of analyze_file_dependencies over requires.
AddDependencies(st, file_path, requires) ==
    IF requires = <<>> THEN st
    ELSE AddDependencies(AddDependencyState(st, file_path, Head(requires)),
                         file_path, Tail(requires))

\* analyze_file_dependencies(file_path), for a file not analysed before:
\* reading or analysing raises, or the analysis reports an error, or the
\* file is added with its module name and content and its requires are
\* recorded in the order of the list requires.
AnalyzeFileDependencies(file_path) ==
    /\ pc = "idle"
    /\ file_path \in pool
    /\ pool' = pool \ {file_path}
    /\ last' = Call("analyze_file_dependencies", file_path, NoPath)
    /\ ret' = NoPath
    /\ \/ /\ failed_files' = failed_files \cup {file_path}
          /\ UNCHANGED <<object, processed_files>>
       \/ UNCHANGED <<object, processed_files, failed_files>>
       \/ /\ \E requires \in Orderings(project[file_path].requires) :
                Store(AddDependencies(
                        AddFileState(Self, file_path, ExtractModuleName(file_path),
                                     project[file_path].text),
                        file_path, requires))
          /\ processed_files' = processed_files \cup {file_path}
          /\ UNCHANGED failed_files
    /\ UNCHANGED <<budget, project, resolver, restored_files, output_files,
                   restoration_order, attempts, pc, discovery>>

\* restore_code_in_order up to its loop: nothing to do on an empty graph;
\* else the order is computed and the output directory made, which may raise.
RestoreBegin ==
    /\ pc = "idle"
    /\ pool = {}
    /\ last' = Call("restore_code_in_order", NoPath, NoPath)
    /\ ret' = NoPath
    /\ \/ /\ graph = <<>>
          /\ pc' = "done"
          /\ UNCHANGED restoration_order
       \/ /\ graph # <<>>
          /\ restoration_order' \in TopologicalSort(graph)
          /\ pc' \in {"restoring", "aborted"}
    /\ UNCHANGED <<object, budget, project, pool, resolver, processed_files,
                   failed_files, restored_files, output_files, attempts, discovery>>

\* What one pass of the loop did: the file, where its content came from, the
\* content, what the API did, whether the output was written.
Attempt(file_path, read, content, llm, write) ==
    [file |-> file_path, read |-> read, content |-> content, llm |-> llm,
     write |-> write]

\* The passes _restore_single_file may make for a file: its content is
\* cached, read again, or not readable; the API answers with code, with
\* nothing, or raises; writing the output works or raises.
Attempts(file_path) ==
    LET cached == DictGet(file_contents, file_path, "")
        readable == IF cached # "" THEN {Attempt(file_path, "cached", cached, "none", "none")}
                    ELSE {Attempt(file_path, "read", project[file_path].text, "none", "none")}
        unreadable == IF cached # "" THEN {}
                      ELSE {Attempt(file_path, "unreadable", "", "none", "none")}
    IN unreadable
       \cup {[a EXCEPT !.llm = llm, !.write = write] :
                a \in readable, llm \in {"answered", "empty", "raised"},
                write \in {"written", "failed"}}

\* Lines 316-322: the code that is written.
CodeToWrite(attempt) ==
    IF RestoreLuaCode(attempt.content, attempt.llm) = ""
    THEN attempt.content
    ELSE RestoreLuaCode(attempt.content, attempt.llm)

\* A loop that stops at the first file whose restoration raised.
LoopAbortsOnFailure(attempt) ==
    IF attempt.write = "failed" THEN "aborted" ELSE "restoring"

\* Lines 275-280: the exception of a file is caught and logged, the loop
\* goes on with the next file.
LoopGoesOn(attempt) == "restoring"

\* One pass of the loop of restore_code_in_order, lines 272-280, with
\* _restore_single_file.
RestoreNextFile ==
    /\ pc = "restoring"
    /\ Len(attempts) < Len(restoration_order)
    /\ \E attempt \in Attempts(restoration_order[Len(attempts) + 1]) :
          /\ attempts' = Append(attempts, attempt)
          /\ output_files' = IF attempt.write = "written"
                             THEN DictSet(output_files, OutputFile(attempt.file),
                                          CodeToWrite(attempt))
                             ELSE output_files
          /\ restored_files' = IF attempt.write = "failed" THEN restored_files
                               ELSE restored_files \cup {attempt.file}
          /\ failed_files' = IF attempt.write = "failed"
                             THEN failed_files \cup {attempt.file}
                             ELSE failed_files
          /\ pc' = LoopGoesOn(attempt)
          /\ last' = Call("_restore_single_file", attempt.file, NoPath)
    /\ ret' = NoPath
    /\ UNCHANGED <<object, budget, project, pool, resolver, processed_files,
                   restoration_order, discovery>>

\* restore_code_in_order behind its loop: the exports and the report.
RestoreEnd ==
    /\ pc = "restoring"
    /\ Len(attempts) = Len(restoration_order)
    /\ pc' = "done"
    /\ UNCHANGED <<object, last, ret, budget, project, pool, resolver,
                   processed_files, failed_files, restored_files, output_files,
                   restoration_order, attempts, discovery>>

NextDecoder ==
    \/ \E file_path \in NamePaths : ExtractModuleNameCall(file_path)
    \/ \E file_path \in pool : AnalyzeFileDependencies(file_path)
    \/ RestoreBegin
    \/ RestoreNextFile
    \/ RestoreEnd

SpecDecoder == InitDecoder /\ [][NextDecoder]_vars

\* The loop of restore_code_in_order is sequential code: once entered, its
\* next pass is taken, and the code behind the loop is run.
SpecDecoderFair ==
    SpecDecoder /\ WF_vars(RestoreNextFile) /\ WF_vars(RestoreEnd)

\* C16: when the transformation of a file fails (the API raises or answers
\* with no text) and the output is written, the output is the file's
\* original content and the file is in failed_files, not in restored_files.
C16_FailureRecorded ==
    (last.op = "_restore_single_file" /\ attempts # <<>>)
    => LET attempt == attempts[Len(attempts)]
       IN (attempt.llm \in {"raised", "empty"} /\ attempt.write = "written")
          => /\ output_files[OutputFile(attempt.file)] = attempt.content
             /\ attempt.file \in failed_files
             /\ attempt.file \notin restored_files

\* C17: once the loop of restore_code_in_order is entered, every file of the
\* order returned by topological_sort is eventually attempted.
C17_EveryFileAttempted ==
    \A file_path \in {FileA, FileB, FileC, FileD} :
        (pc = "restoring" /\ file_path \in SeqToSet(restoration_order))
        ~> (\E i \in 1..Len(attempts) : attempts[i].file = file_path)

\* The batch is through with three files: the first was not readable, the
\* transformation of the second failed and writing its output raised, and
\* the third was attempted all the same.
C17_Witness ==
    /\ pc = "done"
    /\ Len(attempts) = 3
    /\ attempts[1].read = "unreadable"
    /\ attempts[2].llm = "raised"
    /\ attempts[2].write = "failed"
    /\ attempts[3].file = restoration_order[3]

\* C18: for a file <root>/lua/a/b.lua.unluac the derived module name is the
\* segments joined by dots, "a.b", the name derived for <root>/lua/a/b.lua.
C18_DualSuffixStripped ==
    last.op = "_extract_module_name"
    => \A dir \in {<<LuaDir>>, <<<<"r">>, LuaDir>>}, segments \in NameSegments :
          last.path = dir \o WithSuffix(segments, DotLuaUnluac)
          => /\ ret = Join(segments, ".")
             /\ ret = ExtractModuleName(dir \o WithSuffix(segments, DotLua))

\* C22: in restore_code_in_order the transformation of a file is invoked
\* only after restoration has been attempted for every file it directly
\* depends on in the graph: every pass of the loop that called the API comes
\* after a pass for each direct dependency of its file.
C22_DependenciesAttemptedFirst ==
    \A i \in 1..Len(attempts) :
        attempts[i].llm # "none"
        => \A dep \in GetDependencies(reverse_graph, attempts[i].file) :
              \E j \in 1..(i - 1) : attempts[j].file = dep

\* The chain a -> b -> c was analysed starting with a, and its three files
\* were transformed in the order c, b, a.
C22_Witness ==
    /\ pc = "done"
    /\ Len(attempts) = 3
    /\ \A i \in 1..3 : attempts[i].llm # "none"
    /\ OKeySeq(graph)[1] = attempts[3].file
    /\ attempts[2].file \in GetDependencies(reverse_graph, attempts[3].file)
    /\ attempts[1].file \in GetDependencies(reverse_graph, attempts[2].file)

\* ============================================================== discovery
\* src/src/lua_decoder.py, LuaDecoder.discover_dependencies_recursively.

\* The largest max_depth a caller passes.
MaxDepth == 2

\* Path.exists(): the path is a file of the file system or a directory above
\* one.
Exists(files, path) ==
    \E f \in files : Len(path) <= Len(f) /\ SubSeq(f, 1, Len(path)) = path

\* Lines 220-226: possible_paths for a module below a search path.
PossiblePaths(search_path, req_module) ==
    LET search_path_obj == PathOf(search_path)
        module_parts == Split(req_module, ".")
        name == module_parts[Len(module_parts)]
        below == search_path_obj \o PathOf(Join(module_parts, "/"))
    IN <<below \o <<name \o DotLuaUnluac>>,
         below \o <<name \o DotLua>>,
         search_path_obj \o <<name \o DotLuaUnluac>>,
         search_path_obj \o <<name \o DotLua>>>>

RECURSIVE FirstUnluac(_, _, _, _)
\* Lines 228-237: the loop over possible_paths from the k-th on: the first
\* path that exists, is not in processed and ends in .lua.unluac is queued;
\* a path that ends in .lua is passed over.
FirstUnluac(files, paths, seen, k) ==
    IF k > Len(paths) THEN <<>>
    ELSE IF /\ Exists(files, paths[k])
            /\ paths[k] \notin seen
            /\ EndsWith(Name(paths[k]), DotLuaUnluac)
         THEN <<paths[k]>>
         ELSE FirstUnluac(files, paths, seen, k + 1)

RECURSIVE SearchBasePaths(_, _, _, _, _)
\* Lines 216-238: the loop over the search paths from the i-th on; it ends
\* behind the first search path that exists.
SearchBasePaths(roots, files, req_module, seen, i) ==
    IF i > Len(roots) THEN <<>>
    ELSE IF Exists(files, PathOf(roots[i]))
         THEN FirstUnluac(files, PossiblePaths(roots[i], req_module), seen, 1)
         ELSE SearchBasePaths(roots, files, req_module, seen, i + 1)

\* Lines 210-238: the files queued for one required module, none or one: the
\* file the resolver returns unless it is in processed, else what the search
\* paths hold.
DependencyFile(roots, files, req_module, seen) ==
    LET dep_file == ResolveModuleToPath(roots, files, req_module)
    IN IF dep_file # NoPath /\ Exists(files, dep_file) /\ dep_file \notin seen
       THEN <<dep_file>>
       ELSE SearchBasePaths(roots, files, req_module, seen, 1)

RECURSIVE QueueDependencies(_, _, _, _, _, _, _)
\* Lines 207-238: for req_module in requires: if depth < max_depth, the
\* file found is appended with depth + 1.
QueueDependencies(queue, roots, files, requires, depth, bound, seen) ==
    IF requires = <<>> THEN queue
    ELSE LET found == IF depth < bound
                      THEN DependencyFile(roots, files, Head(requires), seen)
                      ELSE <<>>
         IN QueueDependencies(
                queue \o [i \in 1..Len(found) |-> <<found[i], depth + 1>>],
                roots, files, Tail(requires), depth, bound, seen)

\* A test that lets a file in processed through.
SkippedByDepthAlone(current_file, depth, seen, bound) == depth > bound

\* Line 191: if current_file_str in processed or depth > max_depth: continue
Skipped(current_file, depth, seen, bound) ==
    current_file \in seen \/ depth > bound

\* ------------------------------------------------ the trees discovered
\* lua/b/b.lua.unluac, a second file for the module name b.
FileBB == <<LuaDir, <<"b">>, <<"b">> \o DotLuaUnluac>>

\* a requires b, b requires b, the decompiled b/b requires a.
Shadow == (FileA :> Source({<<"b">>}, "text a") @@ FileB :> Source({<<"b">>}, "text b")
           @@ FileBB :> Source({<<"a">>}, "text bb"))
\* a requires b and c, b requires c: c is found twice.
Shared == (FileA :> Source({<<"b">>, <<"c">>}, "text a") @@ FileB :> Source({<<"c">>}, "text b")
           @@ FileC :> Source({}, "text c"))
DiscoverTrees == SourceTrees \cup {Shadow, Shared}

\* The files a discovery starts at, and the values of max_depth.
StartFiles == {FileA, FileB, FileC, FileD}
DepthBounds == (-1)..MaxDepth

\* LuaDecoder.__init__ with the search path lua, in a directory that holds a
\* source tree.
InitDiscover ==
    /\ NoGraph
    /\ last = Call("__init__", NoPath, NoPath)
    /\ ret = NoPath
    /\ budget = 0
    /\ project \in DiscoverTrees
    /\ pool = {}
    /\ base_paths = <<RootLua>>
    /\ fs = DOMAIN project
    /\ source = <<>>
    /\ NoDecoder

\* discover_dependencies_recursively(start_file, max_depth) up to its loop.
DiscoverBegin(start_file, bound) ==
    /\ pc = "idle"
    /\ files_to_process' = <<<<start_file, 0>>>>
    /\ processed' = {}
    /\ max_depth' = bound
    /\ analysed' = <<>>
    /\ pc' = "discovering"
    /\ last' = Call("discover_dependencies_recursively", start_file, NoPath)
    /\ ret' = NoPath
    /\ UNCHANGED <<object, budget, project, pool, resolver, processed_files,
                   failed_files, restored_files, output_files, restoration_order,
                   attempts>>

\* A pass of the loop that ends at the continue of line 192.
DiscoverSkip ==
    /\ pc = "discovering"
    /\ files_to_process # <<>>
    /\ Skipped(Head(files_to_process)[1], Head(files_to_process)[2], processed, max_depth)
    /\ files_to_process' = Tail(files_to_process)
    /\ UNCHANGED <<object, last, ret, budget, project, pool, resolver, processed_files,
                   failed_files, restored_files, output_files, restoration_order,
                   attempts, pc, processed, max_depth, analysed>>

\* A pass of the loop that analyses the file, lines 194-240, with
\* analyze_file_dependencies: reading or analysing raises, or the analysis
\* reports an error, or the file enters the graph with its requires; the
\* files of the requires are queued.
DiscoverAnalyse ==
    /\ pc = "discovering"
    /\ files_to_process # <<>>
    /\ LET current_file == Head(files_to_process)[1]
           depth == Head(files_to_process)[2]
       IN /\ ~Skipped(current_file, depth, processed, max_depth)
          /\ processed' = processed \cup {current_file}
          /\ analysed' = Append(analysed, <<current_file, depth>>)
          /\ last' = Call("analyze_file_dependencies", current_file, NoPath)
          /\ \/ /\ failed_files' = failed_files \cup {current_file}
                /\ files_to_process' = Tail(files_to_process)
                /\ UNCHANGED <<object, processed_files>>
             \/ /\ current_file \in DOMAIN project
                /\ files_to_process' = Tail(files_to_process)
                /\ UNCHANGED <<object, processed_files, failed_files>>
             \/ /\ current_file \in DOMAIN project
                /\ \E requires \in Orderings(project[current_file].requires) :
                      /\ Store(AddDependencies(
                                 AddFileState(Self, current_file,
                                              ExtractModuleName(current_file),
                                              project[current_file].text),
                                 current_file, requires))
                      /\ files_to_process' =
                           QueueDependencies(Tail(files_to_process), base_paths, fs,
                                             requires, depth, max_depth, processed')
                /\ processed_files' = processed_files \cup {current_file}
                /\ UNCHANGED failed_files
    /\ ret' = NoPath
    /\ UNCHANGED <<budget, project, pool, resolver, restored_files, output_files,
                   restoration_order, attempts, pc, max_depth>>

\* One pass of the while loop.
DiscoverNext == DiscoverSkip \/ DiscoverAnalyse

\* The queue is empty: the loop is left, line 242.
DiscoverEnd ==
    /\ pc = "discovering"
    /\ files_to_process = <<>>
    /\ pc' = "discovered"
    /\ UNCHANGED <<object, last, ret, budget, project, pool, resolver, processed_files,
                   failed_files, restored_files, output_files, restoration_order,
                   attempts, discovery>>

NextDiscover ==
    \/ \E start_file \in StartFiles, bound \in DepthBounds : DiscoverBegin(start_file, bound)
    \/ DiscoverSkip
    \/ DiscoverAnalyse
    \/ DiscoverEnd

SpecDiscover == InitDiscover /\ [][NextDiscover]_vars

\* The while loop is sequential code and every analysis returns: a pass that
\* can be made is made, and the loop is left when the queue is empty.
SpecDiscoverFair ==
    SpecDiscover /\ WF_vars(DiscoverNext) /\ WF_vars(DiscoverEnd)

\* C23: discover_dependencies_recursively terminates, also on files that
\* require each other cyclically; each file path is analysed at most once,
\* and no file is analysed at a depth greater than max_depth.
C23_DiscoveryTerminates ==
    /\ [](\A i \in 1..Len(analysed), j \in 1..Len(analysed) :
             analysed[i][1] = analysed[j][1] => i = j)
    /\ [](\A i \in 1..Len(analysed) : analysed[i][2] <= max_depth)
    /\ (pc = "discovering") ~> (pc = "discovered")

\* The discovery has ended on a and b, which require each other: b, found
\* through a, was analysed and its require of a was not followed again.
C23_Witness ==
    /\ pc = "discovered"
    /\ project = Mutual
    /\ max_depth >= 2
    /\ analysed = <<<<FileA, 0>>, <<FileB, 1>>>>
    /\ processed_files = {FileA, FileB}

\* C31: when restore_code_in_order has completed on a non-empty graph, every
\* node of the dependency graph has been attempted exactly once and is in
\* exactly one of restored_files and failed_files.
C31_EveryNodeSettled ==
    (pc = "done" /\ graph # <<>>)
    => \A node \in OKeys(graph) :
          /\ Cardinality({i \in 1..Len(attempts) : attempts[i].file = node}) = 1
          /\ (node \in restored_files) # (node \in failed_files)

\* C32: a file is in restored_files only if an output file was written for
\* it: a file whose content is neither cached nor readable gets no output
\* and is not counted as restored.
C32_RestoredHasOutput ==
    \A i \in 1..Len(attempts) :
        /\ attempts[i].file \in restored_files
           => OutputFile(attempts[i].file) \in DOMAIN output_files
        /\ attempts[i].read = "unreadable"
           => /\ OutputFile(attempts[i].file) \notin DOMAIN output_files
              /\ attempts[i].file \notin restored_files

\* A file that requires the module asked for.
Consumer == <<LuaDir, <<"m", "a", "i", "n", ".", "l", "u", "a">>>>

\* C33: for every module name m that resolve maps to a file p, the module
\* name derived from p is m, so that on a graph where a consumer is pending
\* on m, add_file of p under its derived name clears the pending entry and
\* creates the edge p -> consumer.
C33_RoundTrip ==
    (last.op = "resolve_module_to_path" /\ ret # NoPath)
    => /\ ExtractModuleName(ret) = last.module
       /\ LET waiting == AddDependencyState(Self, Consumer, last.module)
              after == AddFileState(waiting, ret, ExtractModuleName(ret), "text")
          IN /\ last.module \notin DOMAIN after.pending_module_dependents
             /\ Consumer \in GetDependents(after.graph, ret)
====
